---- MODULE Spec2Model ----
(***************************************************************************)
(* Token and session lifecycle of the Picks League API: the OAuth login    *)
(* and callback handlers of the auth router, the TokenService and the      *)
(* rows of the users / refresh_tokens / sessions tables.                    *)
(*                                                                         *)
(* Time is in seconds.  Fresh random values (randomState, randomUUID, the  *)
(* uuid primary keys) are modelled by counters: a value is never handed    *)
(* out twice.  Every await of the callback handler is a separate step, so  *)
(* requests interleave exactly where the event loop can switch.            *)
(***************************************************************************)
EXTENDS Integers, FiniteSets, Sequences, TLC

\* ------------------------------------------------------------- bounds
\* login requests that register a state
MaxLogins == 2
\* callback requests that pass the state check
MaxCallbacks == 2
\* clock advances
MaxTicks == 2

\* ---------------------------------------------------------- constants
REFRESH_TOKEN_EXPIRES_IN == 30 * 24 * 60 * 60
SESSION_DURATION == 24 * 60 * 60
\* "less than 1 hour left" of the session middleware
EXTEND_THRESHOLD == 60 * 60

\* the moment at which the local time zones below change their UTC offset
ZONE_CHANGE_AT == SESSION_DURATION + EXTEND_THRESHOLD
\* the time zones the process can run in: one whose offset never changes, one
\* that puts its clocks forward an hour and one that puts them back an hour
Zones ==
    {[at |-> ZONE_CHANGE_AT, by |-> 0], [at |-> ZONE_CHANGE_AT, by |-> 3600],
     [at |-> ZONE_CHANGE_AT, by |-> -3600]}

\* the two request slots that can be in flight at once
Procs == {"r1", "r2"}
\* the slot of a maintenance job running next to the requests
Jobs == {"job"}

\* own properties of the object createClients returns
ClientKeys == {"google", "discord"}
\* a property every object literal inherits from Object.prototype
InheritedKeys == {"constructor"}
\* the :provider path parameters that are tried
PathProviders == ClientKeys \cup InheritedKeys \cup {"github"}
\* subject ids the identity providers answer with
Subs == {"s1", "s2"}
\* clock steps: a moment, and the refresh-token window
TickSteps == {1, REFRESH_TOKEN_EXPIRES_IN}

\* state values a callback can carry (0: a value that was never issued;
\* randomState values cannot be guessed before they are issued)
StateInputs == 0..MaxLogins
\* refresh-token values a request body can carry (0: matches no record;
\* NoToken: the field is missing; randomUUID values cannot be guessed before
\* they are issued)
NoToken == -1
TokenInputs == {NoToken} \cup (0..MaxCallbacks)

\* clock steps of the session runs: a moment, up to the last hour of a
\* session, and the session window
SessionTickSteps == {1, SESSION_DURATION - EXTEND_THRESHOLD, SESSION_DURATION}
\* clock steps of the store runs: a moment, and the session window
StoreTickSteps == {1, SESSION_DURATION}
\* x-session-id values a request can carry (0: names no record; NoSid: the
\* header is absent; uuid keys cannot be guessed before they are handed out)
NoSid == -1
SessionInputs == {NoSid} \cup (0..MaxCallbacks)
\* user ids a caller can pass (0: no such user; uuid keys cannot be guessed
\* before they are handed out)
UserInputs == 0..MaxCallbacks
\* partial data a caller passes to updateSession: an existing key, a new key
Patches == {[name |-> "Renamed"], [theme |-> "dark"]}
\* no partial data
\* partial data of two callers writing different new keys
DisjointPatches == {[theme |-> "dark"], [lang |-> "fr"]}

NoPatch == [k \in {} |-> ""]
\* what startServer mounts in front of the auth router
AppMiddleware == {"cors", "json"}
\* the session management routes of the auth router
SessionRoutes == {"GET /session", "DELETE /session", "DELETE /sessions"}

VARIABLES zone, running, now, ticks, states, issued, users, refreshTokens, tokenCtr,
          sessions, sessionCtr, procs, calls, resp, finished

vars == <<zone, running, now, ticks, states, issued, users, refreshTokens, tokenCtr,
          sessions, sessionCtr, procs, calls, resp, finished>>

\* -------------------------------------------------------------- helpers
\* clients[provider] is truthy: an own key, or a member of Object.prototype
HasConfig(provider) ==
    provider \in ClientKeys \cup InheritedKeys

\* clients[provider] is a client.Configuration the openid-client calls accept
IsConfiguration(provider) ==
    provider \in ClientKeys

\* no session row: null, or req.session left undefined
NoSession ==
    [id |-> 0, userId |-> 0,
     data |-> [provider |-> "", email |-> "", name |-> "", lastLogin |-> 0],
     expiresAt |-> 0, lastAccessedAt |-> 0]

\* no refresh-token row
NoRow ==
    [id |-> 0, token |-> NoToken, userId |-> 0, expiresAt |-> 0,
     isRevoked |-> FALSE]

NoResp ==
    [op |-> "none", status |-> 0, error |-> "", provider |-> "", state |-> 0,
     sub |-> "", userId |-> 0, token |-> NoToken, sessionId |-> 0,
     expiresIn |-> 0, session |-> NoSession, list |-> {}]

Response(op, status, error, provider, state) ==
    [op |-> op, status |-> status, error |-> error, provider |-> provider,
     state |-> state, sub |-> "", userId |-> 0, token |-> NoToken,
     sessionId |-> 0, expiresIn |-> 0, session |-> NoSession, list |-> {}]

Idle ==
    [pc |-> "idle", provider |-> "", state |-> 0, sub |-> "", userId |-> 0,
     token |-> NoToken, caller |-> "", sessionId |-> 0, seen |-> NoSession,
     at |-> 0, row |-> NoRow, patch |-> NoPatch]

\* the profile the provider holds for a subject id
EmailOf(sub) ==
    IF sub = "s1" THEN "s1@example.com" ELSE "s2@example.com"

NameOf(sub) ==
    IF sub = "s1" THEN "One" ELSE "Two"

\* d.setSeconds(d.getSeconds() + n) on a date holding t: the sum is taken on
\* the local wall clock and converted back, so a change of the local offset
\* between t and the result moves the result the other way
SetSeconds(t, n) ==
    IF zone.by > 0 /\ t < zone.at /\ zone.at <= t + n - zone.by
      THEN t + n - zone.by
      ELSE IF zone.by < 0 /\ t < zone.at /\ zone.at <= t + n
        THEN t + n - zone.by
        ELSE t + n

\* states.get(key): the entries stored under key (none or one)
StatesGet(map, key) ==
    {e \in map : e.state = key}

\* states.set(state, {codeVerifier, state, provider})
StatesSet(map, key, provider) ==
    {e \in map : e.state # key}
        \cup {[state |-> key, provider |-> provider, codeVerifier |-> key]}

\* the finally block forgotten: the entry stays in the registry
StatesDeleteNothing(map, key) ==
    map

\* states.delete(key)
StatesDelete(map, key) ==
    {e \in map : e.state # key}

\* !storedState || storedState.provider !== provider, negated
StateCheckPasses(map, key, provider) ==
    \E e \in StatesGet(map, key) : e.provider = provider

\* select().from(users).where(eq(users.providerId, sub))
FindUsers(rows, provider, sub) ==
    {u \in rows : u.providerId = sub}

\* the insert that replaces the table's rows by the new one
InsertUserReplacing(rows, provider, sub) ==
    {[id |-> Cardinality(rows) + 1, provider |-> provider,
      providerId |-> sub, email |-> EmailOf(sub), name |-> NameOf(sub)]}

\* insert(users).values(newUser): no constraint rejects the row
InsertUser(rows, provider, sub) ==
    rows \cup {[id |-> Cardinality(rows) + 1, provider |-> provider,
                providerId |-> sub, email |-> EmailOf(sub),
                name |-> NameOf(sub)]}

\* the where clause of refreshAccessToken's select
RefreshSelect(rows, token, t) ==
    {r \in rows : r.token = token /\ r.isRevoked = FALSE /\ r.expiresAt < t}

\* the update writing the wrong flag value
RevokeUpdateWrongFlag(rows, token) ==
    {IF r.token = token THEN [r EXCEPT !.isRevoked = FALSE] ELSE r : r \in rows}

\* the update without its where clause: every row is revoked
RevokeUpdateAll(rows, token) ==
    {[r EXCEPT !.isRevoked = TRUE] : r \in rows}

\* update(refreshTokens).set({isRevoked: true}).where(eq(token))
RevokeUpdate(rows, token) ==
    {IF r.token = token THEN [r EXCEPT !.isRevoked = TRUE] ELSE r : r \in rows}

\* delete(refreshTokens).where(or(lt(expiresAt, now), eq(isRevoked, true)))
CleanupDelete(rows, t) ==
    {r \in rows : ~(r.expiresAt < t \/ r.isRevoked = TRUE)}

\* select().from(sessions).where(eq(sessions.id, sessionId))
SessionsById(rows, sid) ==
    {s \in rows : s.id = sid}

\* session.expiresAt < new Date()
IsStale(s, t) ==
    s.expiresAt < t

\* the access that also moves the expiry
TouchAndExtend(rows, sid, t) ==
    {IF s.id = sid
       THEN [s EXCEPT !.lastAccessedAt = t, !.expiresAt = t + SESSION_DURATION]
       ELSE s : s \in rows}

\* update(sessions).set({lastAccessedAt}).where(eq(sessions.id, sessionId))
TouchUpdate(rows, sid, t) ==
    {IF s.id = sid THEN [s EXCEPT !.lastAccessedAt = t] ELSE s : s \in rows}

\* the extension written as an upsert: a missing row is created
ExtendUpsert(rows, sid, t) ==
    IF \E s \in rows : s.id = sid
      THEN {IF s.id = sid
              THEN [s EXCEPT !.expiresAt = SetSeconds(t, SESSION_DURATION),
                             !.lastAccessedAt = t]
              ELSE s : s \in rows}
      ELSE rows \cup {[NoSession EXCEPT
                           !.id = sid,
                           !.expiresAt = SetSeconds(t, SESSION_DURATION),
                           !.lastAccessedAt = t]}

\* the update of extendSession, called at time t
ExtendUpdate(rows, sid, t) ==
    {IF s.id = sid
       THEN [s EXCEPT !.expiresAt = SetSeconds(t, SESSION_DURATION),
                      !.lastAccessedAt = t]
       ELSE s : s \in rows}

\* timeUntilExpiry < 1000 * 60 * 60, for the row the middleware was handed
NearExpiry(s, t) ==
    s.expiresAt - t < EXTEND_THRESHOLD

\* req.session: id, userId, data and expiresAt of the row
SessionView(s) ==
    [s EXCEPT !.lastAccessedAt = 0]

\* { ...old, ...new }
Merge(old, new) ==
    [k \in DOMAIN old \cup DOMAIN new |->
         IF k \in DOMAIN new THEN new[k] ELSE old[k]]

\* update(sessions).set({data, lastAccessedAt}).where(eq(sessions.id, sid))
DataUpdate(rows, sid, data, t) ==
    {IF s.id = sid THEN [s EXCEPT !.data = data, !.lastAccessedAt = t] ELSE s :
         s \in rows}

\* delete(sessions).where(eq(sessions.id, sessionId))
DeleteById(rows, sid) ==
    {s \in rows : s.id # sid}

\* delete(sessions).where(eq(sessions.userId, userId))
DeleteByUser(rows, uid) ==
    {s \in rows : s.userId # uid}

\* delete(sessions).where(lt(sessions.expiresAt, new Date()))
SessionCleanupDelete(rows, t) ==
    {s \in rows : ~(s.expiresAt < t)}

\* the where clause of getUserSessions
ActiveOf(rows, uid, t) ==
    {s \in rows : s.userId = uid /\ s.expiresAt > t}

\* ----------------------------------------------------------------- Init
Init ==
    /\ zone \in Zones
    /\ running = TRUE
    /\ now = 0
    /\ ticks = 0
    /\ states = {}
    /\ issued = 0
    /\ users = {}
    /\ refreshTokens = {}
    /\ tokenCtr = 0
    /\ sessions = {}
    /\ sessionCtr = 0
    /\ procs = [p \in Procs \cup Jobs |-> Idle]
    /\ calls = 0
    /\ resp = NoResp
    /\ finished = {}

\* ------------------------------------------------------------- actions
Tick(d) ==
    /\ ticks < MaxTicks
    /\ now' = now + d
    /\ ticks' = ticks + 1
    /\ resp' = NoResp
    /\ UNCHANGED <<zone, running, states, issued, users, refreshTokens, tokenCtr, sessions,
                   sessionCtr, procs, calls, finished>>

\* GET /auth/login/:provider. For a provider name that clients inherits from
\* Object.prototype the entry is stored and buildAuthorizationUrl then throws:
\* express drops the promise of the handler, nothing listens for the
\* rejection, and node ends the process, with its registry and its requests
\* in flight
BeginLogin(provider) ==
    /\ running
    /\ IF ~HasConfig(provider)
         THEN /\ resp' = Response("login", 400, "Invalid provider", provider, 0)
              /\ UNCHANGED <<running, states, issued, procs>>
         ELSE /\ issued < MaxLogins
              /\ issued' = issued + 1
              /\ IF IsConfiguration(provider)
                   THEN /\ states' = StatesSet(states, issued + 1, provider)
                        /\ resp' = Response("login", 302, "", provider,
                                            issued + 1)
                        /\ UNCHANGED <<running, procs>>
                   ELSE /\ running' = FALSE
                        /\ states' = {}
                        /\ procs' = [p \in Procs \cup Jobs |-> Idle]
                        /\ resp' = Response("login", 0, "TypeError", provider,
                                            issued + 1)
    /\ UNCHANGED <<zone, now, ticks, users, refreshTokens, tokenCtr, sessions,
                   sessionCtr, calls, finished>>

\* the slot the next request runs in
FreeSlot(p) ==
    /\ procs[p].pc = "idle"
    /\ \A q \in Procs : procs[q].pc = "idle" => (p = "r1" \/ q # "r1")

\* GET /auth/callback/:provider, up to its first await
CallbackStart(p, provider, key) ==
    /\ running
    /\ FreeSlot(p)
    /\ key <= issued
    /\ IF ~HasConfig(provider)
         THEN /\ resp' = Response("callback", 400, "Invalid provider",
                                  provider, key)
              /\ UNCHANGED <<procs, calls>>
         ELSE IF ~StateCheckPasses(states, key, provider)
           THEN /\ resp' = Response("callback", 400, "Invalid state",
                                    provider, key)
                /\ UNCHANGED <<procs, calls>>
           ELSE /\ calls < MaxCallbacks
                /\ calls' = calls + 1
                /\ resp' = NoResp
                /\ procs' = [procs EXCEPT ![p] =
                       [Idle EXCEPT !.pc = "exchange", !.provider = provider,
                                    !.state = key]]
    /\ UNCHANGED <<zone, running, now, ticks, states, issued, users, refreshTokens, tokenCtr,
                   sessions, sessionCtr, finished>>

\* the user row written before the provider has answered
ExchangeProvisionsEarly(p) ==
    /\ running
    /\ procs[p].pc = "exchange"
    /\ IsConfiguration(procs[p].provider)
    /\ users' = InsertUser(users, procs[p].provider, "s1")
    /\ procs' = [procs EXCEPT ![p].pc = "userinfo"]
    /\ resp' = NoResp
    /\ UNCHANGED <<zone, running, now, ticks, states, issued, refreshTokens, tokenCtr,
                   sessions, sessionCtr, calls, finished>>

\* client.authorizationCodeGrant resolves
Exchange(p) ==
    /\ running
    /\ procs[p].pc = "exchange"
    /\ IsConfiguration(procs[p].provider)
    /\ procs' = [procs EXCEPT ![p].pc = "userinfo"]
    /\ resp' = NoResp
    /\ UNCHANGED <<zone, running, now, ticks, states, issued, users, refreshTokens, tokenCtr,
                   sessions, sessionCtr, calls, finished>>

\* the discord user-info fetch resolves with {id, email, username}; for any
\* other provider JSON.parse is handed the text of a stream object and throws
UserInfo(p, sub) ==
    /\ running
    /\ procs[p].pc = "userinfo"
    /\ procs[p].provider = "discord"
    /\ procs' = [procs EXCEPT ![p].pc = "find", ![p].sub = sub]
    /\ resp' = NoResp
    /\ UNCHANGED <<zone, running, now, ticks, states, issued, users, refreshTokens, tokenCtr,
                   sessions, sessionCtr, calls, finished>>

\* the select of "find or create user" resolves
FindUser(p) ==
    /\ running
    /\ procs[p].pc = "find"
    /\ LET existingUser == FindUsers(users, procs[p].provider, procs[p].sub)
       IN  IF existingUser = {}
             THEN procs' = [procs EXCEPT ![p].pc = "insert"]
             ELSE \E u \in existingUser :
                    procs' = [procs EXCEPT ![p].pc = "tokens",
                                           ![p].userId = u.id,
                                           ![p].at = now]
    /\ resp' = NoResp
    /\ UNCHANGED <<zone, running, now, ticks, states, issued, users, refreshTokens, tokenCtr,
                   sessions, sessionCtr, calls, finished>>

\* the insert of "find or create user" resolves
CreateUser(p) ==
    /\ running
    /\ procs[p].pc = "insert"
    /\ users' = InsertUser(users, procs[p].provider, procs[p].sub)
    /\ procs' = [procs EXCEPT ![p].pc = "tokens",
                              ![p].userId = Cardinality(users) + 1,
                              ![p].at = now]
    /\ resp' = NoResp
    /\ UNCHANGED <<zone, running, now, ticks, states, issued, refreshTokens, tokenCtr,
                   sessions, sessionCtr, calls, finished>>

\* TokenService.generateTokens when randomUUID returns v, a value that may
\* have been returned before: the insert is checked by no constraint, and the
\* new row has its own id even when every other column repeats a stored row
GenerateTokensWith(p, v) ==
    /\ running
    /\ procs[p].pc = "tokens"
    /\ v \in 1..(tokenCtr + 1)
    /\ tokenCtr' = tokenCtr + 1
    /\ refreshTokens' = refreshTokens \cup
               {[id |-> tokenCtr + 1, token |-> v, userId |-> procs[p].userId,
                 expiresAt |->
                     SetSeconds(procs[p].at, REFRESH_TOKEN_EXPIRES_IN),
                 isRevoked |-> FALSE]}
    /\ procs' = [procs EXCEPT ![p].pc = "session", ![p].token = v,
                              ![p].at = now]
    /\ resp' = NoResp
    /\ UNCHANGED <<zone, running, now, ticks, states, issued, users, sessions, sessionCtr,
                   calls, finished>>

\* the insert of TokenService.generateTokens resolves: the row carries the
\* expiresAt computed when generateTokens was called; the handler goes on to
\* call createSession
GenerateTokens(p) ==
    /\ running
    /\ procs[p].pc = "tokens"
    /\ tokenCtr' = tokenCtr + 1
    /\ refreshTokens' = refreshTokens \cup
               {[id |-> tokenCtr + 1, token |-> tokenCtr + 1,
                 userId |-> procs[p].userId,
                 expiresAt |->
                     SetSeconds(procs[p].at, REFRESH_TOKEN_EXPIRES_IN),
                 isRevoked |-> FALSE]}
    /\ procs' = [procs EXCEPT ![p].pc = "session", ![p].token = tokenCtr + 1,
                              ![p].at = now]
    /\ resp' = NoResp
    /\ UNCHANGED <<zone, running, now, ticks, states, issued, users, sessions, sessionCtr,
                   calls, finished>>

\* the insert of SessionService.createSession resolves, then res.json and the
\* finally block: lastLogin and expiresAt were computed when createSession was
\* called, last_accessed_at is the column default taken by the insert
CreateSession(p) ==
    /\ running
    /\ procs[p].pc = "session"
    /\ sessionCtr' = sessionCtr + 1
    /\ sessions' = sessions \cup
               {[id |-> sessionCtr + 1, userId |-> procs[p].userId,
                 data |-> [provider |-> procs[p].provider,
                           email |-> EmailOf(procs[p].sub),
                           name |-> NameOf(procs[p].sub),
                           lastLogin |-> procs[p].at],
                 expiresAt |-> SetSeconds(procs[p].at, SESSION_DURATION),
                 lastAccessedAt |-> now]}
    /\ resp' = [Response("callback", 200, "", procs[p].provider,
                         procs[p].state)
                  EXCEPT !.sub = procs[p].sub, !.userId = procs[p].userId,
                         !.token = procs[p].token,
                         !.expiresIn = REFRESH_TOKEN_EXPIRES_IN,
                         !.sessionId = sessionCtr + 1]
    /\ states' = StatesDelete(states, procs[p].state)
    /\ finished' = finished \cup {<<procs[p].state, 200>>}
    /\ procs' = [procs EXCEPT ![p] = Idle]
    /\ UNCHANGED <<zone, running, now, ticks, issued, users, refreshTokens, tokenCtr, calls>>

\* an awaited step of the try block rejects: catch, then finally
StepFails(p) ==
    /\ running
    /\ procs[p].pc \in {"exchange", "userinfo", "find", "insert", "tokens",
                        "session"}
    /\ resp' = [Response("callback", 500, "Authentication failed",
                         procs[p].provider, procs[p].state)
                  EXCEPT !.sub = procs[p].sub]
    /\ states' = StatesDelete(states, procs[p].state)
    /\ finished' = finished \cup {<<procs[p].state, 500>>}
    /\ procs' = [procs EXCEPT ![p] = Idle]
    /\ UNCHANGED <<zone, running, now, ticks, issued, users, refreshTokens, tokenCtr,
                   sessions, sessionCtr, calls>>

\* POST /auth/refresh, up to the await of refreshAccessToken's token select:
\* the clock is read for the where clause when the select is issued
RefreshStart(p, token) ==
    /\ running
    /\ procs[p].pc = "idle"
    /\ token <= tokenCtr
    /\ IF token = NoToken
         THEN /\ resp' = Response("refresh", 400, "Refresh token is required",
                                  "", 0)
              /\ UNCHANGED procs
         ELSE /\ resp' = NoResp
              /\ procs' = [procs EXCEPT ![p] =
                     [Idle EXCEPT !.pc = "refreshToken", !.token = token,
                                  !.at = now]]
    /\ UNCHANGED <<zone, running, now, ticks, states, issued, users, refreshTokens,
                   tokenCtr, sessions, sessionCtr, calls, finished>>

\* the token select of refreshAccessToken resolves
RefreshLookup(p) ==
    /\ running
    /\ procs[p].pc = "refreshToken"
    /\ LET found == RefreshSelect(refreshTokens, procs[p].token, procs[p].at)
       IN  IF found = {}
             THEN /\ resp' = [Response("refresh", 401, "Invalid refresh token",
                                       "", 0)
                                EXCEPT !.token = procs[p].token]
                  /\ procs' = [procs EXCEPT ![p] = Idle]
             ELSE /\ resp' = NoResp
                  /\ \E r \in found :
                        procs' = [procs EXCEPT ![p].pc = "refreshUser",
                                               ![p].row = r]
    /\ UNCHANGED <<zone, running, now, ticks, states, issued, users, refreshTokens,
                   tokenCtr, sessions, sessionCtr, calls, finished>>

\* the user select of refreshAccessToken resolves and the route answers
RefreshFinish(p) ==
    /\ running
    /\ procs[p].pc = "refreshUser"
    /\ resp' = IF \A u \in users : u.id # procs[p].row.userId
                 THEN [Response("refresh", 401, "Invalid refresh token", "", 0)
                         EXCEPT !.token = procs[p].token]
                 ELSE [Response("refresh", 200, "", "", 0)
                         EXCEPT !.token = procs[p].token]
    /\ procs' = [procs EXCEPT ![p] = Idle]
    /\ UNCHANGED <<zone, running, now, ticks, states, issued, users, refreshTokens,
                   tokenCtr, sessions, sessionCtr, calls, finished>>

\* a select of refreshAccessToken rejects (the storage is unreachable): the
\* catch block of the route answers
RefreshFails(p) ==
    /\ running
    /\ procs[p].pc \in {"refreshToken", "refreshUser"}
    /\ resp' = [Response("refresh", 401, "Invalid refresh token", "", 0)
                  EXCEPT !.token = procs[p].token]
    /\ procs' = [procs EXCEPT ![p] = Idle]
    /\ UNCHANGED <<zone, running, now, ticks, states, issued, users, refreshTokens,
                   tokenCtr, sessions, sessionCtr, calls, finished>>

\* POST /auth/revoke
PostRevoke(token) ==
    /\ running
    /\ token <= tokenCtr
    /\ IF token = NoToken
         THEN /\ resp' = Response("revoke", 400, "Refresh token is required",
                                  "", 0)
              /\ UNCHANGED refreshTokens
         ELSE /\ refreshTokens' = RevokeUpdate(refreshTokens, token)
              /\ resp' = [Response("revoke", 200, "", "", 0)
                            EXCEPT !.token = token]
    /\ UNCHANGED <<zone, running, now, ticks, states, issued, users, tokenCtr, sessions,
                   sessionCtr, procs, calls, finished>>

\* the update of revokeRefreshToken rejects (the storage is unreachable): the
\* catch block of the route answers
RevokeFails(token) ==
    /\ running
    /\ token \in 0..tokenCtr
    /\ resp' = [Response("revoke", 500, "Failed to revoke token", "", 0)
                  EXCEPT !.token = token]
    /\ UNCHANGED <<zone, running, now, ticks, states, issued, users, refreshTokens,
                   tokenCtr, sessions, sessionCtr, procs, calls, finished>>

\* TokenService.cleanupExpiredTokens is called: the clock is read for the
\* where clause when the delete is issued
CleanupExpiredTokens(p) ==
    /\ running
    /\ procs[p].pc = "idle"
    /\ procs' = [procs EXCEPT ![p] =
           [Idle EXCEPT !.pc = "sweepTokens", !.caller = "cleanupExpiredTokens",
                        !.at = now]]
    /\ resp' = NoResp
    /\ UNCHANGED <<zone, running, now, ticks, states, issued, users, refreshTokens,
                   tokenCtr, sessions, sessionCtr, calls, finished>>

\* the delete of cleanupExpiredTokens is executed
CleanupTokensDelete(p) ==
    /\ running
    /\ procs[p].pc = "sweepTokens"
    /\ refreshTokens' = CleanupDelete(refreshTokens, procs[p].at)
    /\ procs' = [procs EXCEPT ![p] = Idle]
    /\ resp' = NoResp
    /\ UNCHANGED <<zone, running, now, ticks, states, issued, users, tokenCtr, sessions,
                   sessionCtr, calls, finished>>

\* SessionService.getSession called directly, up to the check after its select
GetSession(p, sid) ==
    /\ running
    /\ procs[p].pc = "idle"
    /\ sid \in 0..sessionCtr
    /\ LET found == SessionsById(sessions, sid)
       IN  IF found = {} \/ \A s \in found : IsStale(s, now)
             THEN /\ resp' = [Response("getSession", 0, "null", "", 0)
                                EXCEPT !.sessionId = sid]
                  /\ UNCHANGED procs
             ELSE /\ resp' = NoResp
                  /\ \E s \in found :
                        procs' = [procs EXCEPT ![p] =
                            [Idle EXCEPT !.pc = "touch", !.caller = "getSession",
                                         !.sessionId = sid, !.seen = s,
                                         !.at = now]]
    /\ UNCHANGED <<zone, running, now, ticks, states, issued, users, refreshTokens, tokenCtr,
                   sessions, sessionCtr, calls, finished>>

\* sessionMiddleware()(req, res, next), up to the check inside its getSession
SessionMiddleware(p, sid) ==
    /\ running
    /\ procs[p].pc = "idle"
    /\ sid <= sessionCtr
    /\ LET found == SessionsById(sessions, sid)
       IN  IF sid = NoSid \/ found = {} \/ \A s \in found : IsStale(s, now)
             THEN /\ resp' = [Response("middleware", 0, "", "", 0)
                                EXCEPT !.sessionId = sid]
                  /\ UNCHANGED procs
             ELSE /\ resp' = NoResp
                  /\ \E s \in found :
                        procs' = [procs EXCEPT ![p] =
                            [Idle EXCEPT !.pc = "touch", !.caller = "middleware",
                                         !.sessionId = sid, !.seen = s,
                                         !.at = now]]
    /\ UNCHANGED <<zone, running, now, ticks, states, issued, users, refreshTokens, tokenCtr,
                   sessions, sessionCtr, calls, finished>>

\* the select of the middleware's getSession rejects (the storage is
\* unreachable): the catch block logs and next() is called without req.session
SessionMiddlewareSelectFails(p, sid) ==
    /\ running
    /\ procs[p].pc = "idle"
    /\ sid \in 0..sessionCtr
    /\ resp' = [Response("middleware", 0, "", "", 0) EXCEPT !.sessionId = sid]
    /\ UNCHANGED <<zone, running, now, ticks, states, issued, users,
                   refreshTokens, tokenCtr, sessions, sessionCtr, procs, calls,
                   finished>>

\* the lastAccessedAt update of getSession or the update of extendSession
\* rejects inside the middleware: the catch block logs and next() is called,
\* without req.session in the first case and with it in the second; the
\* rejected statement has written nothing
SessionMiddlewareFails(p) ==
    /\ running
    /\ procs[p].pc \in {"touch", "extend"}
    /\ procs[p].caller = "middleware"
    /\ resp' = IF procs[p].pc = "touch"
                 THEN [Response("middleware", 0, "", "", 0)
                         EXCEPT !.sessionId = procs[p].sessionId]
                 ELSE [Response("middleware", 0, "", "", 0)
                         EXCEPT !.sessionId = procs[p].sessionId,
                                !.session = SessionView(procs[p].seen)]
    /\ procs' = [procs EXCEPT ![p] = Idle]
    /\ UNCHANGED <<zone, running, now, ticks, states, issued, users,
                   refreshTokens, tokenCtr, sessions, sessionCtr, calls,
                   finished>>

\* the lastAccessedAt update of getSession resolves and getSession returns the
\* row it selected; the middleware then decides whether to extend
SessionTouch(p) ==
    /\ running
    /\ procs[p].pc = "touch"
    /\ sessions' = TouchUpdate(sessions, procs[p].sessionId, procs[p].at)
    /\ IF procs[p].caller = "getSession"
         THEN /\ resp' = [Response("getSession", 0, "", "", 0)
                            EXCEPT !.sessionId = procs[p].sessionId,
                                   !.session = procs[p].seen]
              /\ procs' = [procs EXCEPT ![p] = Idle]
         ELSE IF NearExpiry(procs[p].seen, now)
           THEN /\ resp' = NoResp
                /\ procs' = [procs EXCEPT ![p].pc = "extend", ![p].at = now]
           ELSE /\ resp' = [Response("middleware", 0, "", "", 0)
                              EXCEPT !.sessionId = procs[p].sessionId,
                                     !.session = SessionView(procs[p].seen)]
                /\ procs' = [procs EXCEPT ![p] = Idle]
    /\ UNCHANGED <<zone, running, now, ticks, states, issued, users, refreshTokens, tokenCtr,
                   sessionCtr, calls, finished>>

\* the update of extendSession resolves: the middleware calls next(), a
\* direct caller is handed the updated row
SessionExtend(p) ==
    /\ running
    /\ procs[p].pc = "extend"
    /\ sessions' = ExtendUpdate(sessions, procs[p].sessionId, procs[p].at)
    /\ resp' = IF procs[p].caller = "extendSession"
                 THEN [Response("extendSession", 0, "", "", 0)
                         EXCEPT !.sessionId = procs[p].sessionId,
                                !.list = SessionsById(sessions',
                                                      procs[p].sessionId)]
                 ELSE [Response("middleware", 0, "", "", 0)
                         EXCEPT !.sessionId = procs[p].sessionId,
                                !.session = SessionView(procs[p].seen)]
    /\ procs' = [procs EXCEPT ![p] = Idle]
    /\ UNCHANGED <<zone, running, now, ticks, states, issued, users, refreshTokens, tokenCtr,
                   sessionCtr, calls, finished>>

\* SessionService.updateSession, up to the check after its select
UpdateSessionStart(p, sid, patch) ==
    /\ running
    /\ procs[p].pc = "idle"
    /\ sid \in 0..sessionCtr
    /\ LET found == SessionsById(sessions, sid)
       IN  IF found = {} \/ \A s \in found : IsStale(s, now)
             THEN /\ resp' = [Response("updateSession", 0, "null", "", 0)
                                EXCEPT !.sessionId = sid]
                  /\ UNCHANGED procs
             ELSE /\ resp' = NoResp
                  /\ \E s \in found :
                        procs' = [procs EXCEPT ![p] =
                            [Idle EXCEPT !.pc = "update",
                                         !.caller = "updateSession",
                                         !.sessionId = sid, !.seen = s,
                                         !.at = now, !.patch = patch]]
    /\ UNCHANGED <<zone, running, now, ticks, states, issued, users, refreshTokens, tokenCtr,
                   sessions, sessionCtr, calls, finished>>

\* the update of updateSession resolves and the updated row is returned
UpdateSessionFinish(p) ==
    /\ running
    /\ procs[p].pc = "update"
    /\ sessions' = DataUpdate(sessions, procs[p].sessionId,
                              Merge(procs[p].seen.data, procs[p].patch),
                              procs[p].at)
    /\ resp' = [Response("updateSession", 0, "", "", 0)
                  EXCEPT !.sessionId = procs[p].sessionId,
                         !.list = SessionsById(sessions', procs[p].sessionId)]
    /\ procs' = [procs EXCEPT ![p] = Idle]
    /\ UNCHANGED <<zone, running, now, ticks, states, issued, users, refreshTokens, tokenCtr,
                   sessionCtr, calls, finished>>

\* SessionService.extendSession called directly, up to the await of its
\* update: the new expiresAt is computed when the update is issued
ExtendSession(p, sid) ==
    /\ running
    /\ procs[p].pc = "idle"
    /\ sid \in 0..sessionCtr
    /\ procs' = [procs EXCEPT ![p] =
           [Idle EXCEPT !.pc = "extend", !.caller = "extendSession",
                        !.sessionId = sid, !.at = now]]
    /\ resp' = NoResp
    /\ UNCHANGED <<zone, running, now, ticks, states, issued, users, refreshTokens,
                   tokenCtr, sessions, sessionCtr, calls, finished>>

\* SessionService.deleteSession
DeleteSession(sid) ==
    /\ running
    /\ sid \in 0..sessionCtr
    /\ sessions' = DeleteById(sessions, sid)
    /\ resp' = [Response("deleteSession", 0, "", "", 0)
                  EXCEPT !.sessionId = sid]
    /\ UNCHANGED <<zone, running, now, ticks, states, issued, users, refreshTokens, tokenCtr,
                   sessionCtr, procs, calls, finished>>

\* the sessions of the user deleted together with the user's refresh tokens
DeleteUserSessionsAndTokens(uid) ==
    /\ running
    /\ uid \in 0..Cardinality(users)
    /\ sessions' = DeleteByUser(sessions, uid)
    /\ refreshTokens' = {r \in refreshTokens : r.userId # uid}
    /\ resp' = [Response("deleteUserSessions", 0, "", "", 0)
                  EXCEPT !.userId = uid]
    /\ UNCHANGED <<zone, running, now, ticks, states, issued, users, tokenCtr,
                   sessionCtr, procs, calls, finished>>

\* SessionService.deleteUserSessions
DeleteUserSessions(uid) ==
    /\ running
    /\ uid \in 0..Cardinality(users)
    /\ sessions' = DeleteByUser(sessions, uid)
    /\ resp' = [Response("deleteUserSessions", 0, "", "", 0)
                  EXCEPT !.userId = uid]
    /\ UNCHANGED <<zone, running, now, ticks, states, issued, users, refreshTokens, tokenCtr,
                   sessionCtr, procs, calls, finished>>

\* SessionService.cleanupExpiredSessions is called: the clock is read for the
\* where clause when the delete is issued
CleanupExpiredSessions(p) ==
    /\ running
    /\ procs[p].pc = "idle"
    /\ procs' = [procs EXCEPT ![p] =
           [Idle EXCEPT !.pc = "sweepSessions",
                        !.caller = "cleanupExpiredSessions", !.at = now]]
    /\ resp' = NoResp
    /\ UNCHANGED <<zone, running, now, ticks, states, issued, users, refreshTokens,
                   tokenCtr, sessions, sessionCtr, calls, finished>>

\* the delete of cleanupExpiredSessions is executed
CleanupSessionsDelete(p) ==
    /\ running
    /\ procs[p].pc = "sweepSessions"
    /\ sessions' = SessionCleanupDelete(sessions, procs[p].at)
    /\ procs' = [procs EXCEPT ![p] = Idle]
    /\ resp' = NoResp
    /\ UNCHANGED <<zone, running, now, ticks, states, issued, users, refreshTokens,
                   tokenCtr, sessionCtr, calls, finished>>

\* SessionService.getUserSessions is called: the clock is read for the where
\* clause when the select is issued
GetUserSessions(p, uid) ==
    /\ running
    /\ procs[p].pc = "idle"
    /\ uid \in 0..Cardinality(users)
    /\ procs' = [procs EXCEPT ![p] =
           [Idle EXCEPT !.pc = "list", !.caller = "getUserSessions",
                        !.userId = uid, !.at = now]]
    /\ resp' = NoResp
    /\ UNCHANGED <<zone, running, now, ticks, states, issued, users, refreshTokens,
                   tokenCtr, sessions, sessionCtr, calls, finished>>

\* the select of getUserSessions resolves
GetUserSessionsFinish(p) ==
    /\ running
    /\ procs[p].pc = "list"
    /\ resp' = [Response("getUserSessions", 0, "", "", 0)
                  EXCEPT !.userId = procs[p].userId,
                         !.list = ActiveOf(sessions, procs[p].userId,
                                           procs[p].at)]
    /\ procs' = [procs EXCEPT ![p] = Idle]
    /\ UNCHANGED <<zone, running, now, ticks, states, issued, users, refreshTokens,
                   tokenCtr, sessions, sessionCtr, calls, finished>>

\* GET /auth/session, DELETE /auth/session, DELETE /auth/sessions as the
\* server started by startServer answers them: nothing mounted in front of
\* the router assigns req.session
SessionRoute(route, sid) ==
    /\ running
    /\ "sessionMiddleware" \notin AppMiddleware
    /\ sid <= sessionCtr
    /\ resp' = [Response(route, 401, "No active session", "", 0)
                  EXCEPT !.sessionId = sid]
    /\ UNCHANGED <<zone, running, now, ticks, states, issued, users, refreshTokens, tokenCtr,
                   sessions, sessionCtr, procs, calls, finished>>

\* the login and callback handlers, two requests in flight
Next ==
    \/ \E provider \in PathProviders : BeginLogin(provider)
    \/ \E p \in Procs : \E provider \in PathProviders : \E key \in StateInputs :
           CallbackStart(p, provider, key)
    \/ \E p \in Procs : Exchange(p)
    \/ \E p \in Procs : \E sub \in Subs : UserInfo(p, sub)
    \/ \E p \in Procs : FindUser(p)
    \/ \E p \in Procs : CreateUser(p)
    \/ \E p \in Procs : GenerateTokens(p)
    \/ \E p \in Procs : CreateSession(p)
    \/ \E p \in Procs : StepFails(p)

Spec == Init /\ [][Next]_vars

\* issuance, refresh and revoke of refresh tokens and the clock, with logins
\* handled one at a time (the sweep runs next to them in NextSweep)
NextTokens ==
    \/ \E d \in TickSteps : Tick(d)
    \/ BeginLogin("discord")
    \/ \E key \in StateInputs : CallbackStart("r1", "discord", key)
    \/ Exchange("r1")
    \/ UserInfo("r1", "s1")
    \/ FindUser("r1")
    \/ CreateUser("r1")
    \/ GenerateTokens("r1")
    \/ CreateSession("r1")
    \/ StepFails("r1")
    \/ \E token \in TokenInputs : RefreshStart("r2", token)
    \/ RefreshLookup("r2")
    \/ RefreshFinish("r2")
    \/ RefreshFails("r2")
    \/ \E token \in TokenInputs : PostRevoke(token)

SpecTokens == Init /\ [][NextTokens]_vars

\* the sweep running between the steps of issuance, refresh and revoke
NextSweep ==
    \/ Tick(REFRESH_TOKEN_EXPIRES_IN)
    \/ BeginLogin("discord")
    \/ \E key \in StateInputs : CallbackStart("r1", "discord", key)
    \/ Exchange("r1")
    \/ UserInfo("r1", "s1")
    \/ FindUser("r1")
    \/ CreateUser("r1")
    \/ GenerateTokens("r1")
    \/ CreateSession("r1")
    \/ StepFails("r1")
    \/ \E token \in TokenInputs : RefreshStart("r2", token)
    \/ RefreshLookup("r2")
    \/ RefreshFinish("r2")
    \/ RefreshFails("r2")
    \/ \E token \in TokenInputs : PostRevoke(token)
    \/ CleanupExpiredTokens("job")
    \/ CleanupTokensDelete("job")

SpecSweep == Init /\ [][NextSweep]_vars

\* the failure answers of the token routes and of the callback
NextFailures ==
    \/ Tick(REFRESH_TOKEN_EXPIRES_IN)
    \/ BeginLogin("discord")
    \/ \E key \in StateInputs : CallbackStart("r1", "discord", key)
    \/ Exchange("r1")
    \/ UserInfo("r1", "s1")
    \/ FindUser("r1")
    \/ CreateUser("r1")
    \/ GenerateTokens("r1")
    \/ CreateSession("r1")
    \/ StepFails("r1")
    \/ \E token \in TokenInputs : RefreshStart("r2", token)
    \/ RefreshLookup("r2")
    \/ RefreshFinish("r2")
    \/ RefreshFails("r2")
    \/ \E token \in TokenInputs : PostRevoke(token)
    \/ \E token \in TokenInputs : RevokeFails(token)

SpecFailures == Init /\ [][NextFailures]_vars

\* the session operations and the clock, with logins handled one at a time
NextSessions ==
    \/ \E d \in SessionTickSteps : Tick(d)
    \/ BeginLogin("discord")
    \/ \E key \in StateInputs : CallbackStart("r1", "discord", key)
    \/ Exchange("r1")
    \/ UserInfo("r1", "s1")
    \/ FindUser("r1")
    \/ CreateUser("r1")
    \/ GenerateTokens("r1")
    \/ CreateSession("r1")
    \/ StepFails("r1")
    \/ \E sid \in SessionInputs : GetSession("r2", sid)
    \/ \E sid \in SessionInputs : SessionMiddleware("r2", sid)
    \/ SessionTouch("r2")
    \/ SessionExtend("r2")
    \/ \E sid \in SessionInputs : SessionMiddlewareSelectFails("r2", sid)
    \/ SessionMiddlewareFails("r2")

SpecSessions == Init /\ [][NextSessions]_vars

\* the session routes of the running server, with logins handled one at a time
NextServer ==
    \/ \E d \in SessionTickSteps : Tick(d)
    \/ BeginLogin("discord")
    \/ \E key \in StateInputs : CallbackStart("r1", "discord", key)
    \/ Exchange("r1")
    \/ UserInfo("r1", "s1")
    \/ FindUser("r1")
    \/ CreateUser("r1")
    \/ GenerateTokens("r1")
    \/ CreateSession("r1")
    \/ StepFails("r1")
    \/ \E route \in SessionRoutes : \E sid \in SessionInputs :
           SessionRoute(route, sid)

SpecServer == Init /\ [][NextServer]_vars

\* the deletions and sweeps of both stores, with logins handled one at a time
NextStore ==
    \/ Tick(SESSION_DURATION)
    \/ BeginLogin("discord")
    \/ \E key \in StateInputs : CallbackStart("r1", "discord", key)
    \/ Exchange("r1")
    \/ UserInfo("r1", "s1")
    \/ FindUser("r1")
    \/ CreateUser("r1")
    \/ GenerateTokens("r1")
    \/ CreateSession("r1")
    \/ StepFails("r1")
    \/ \E sid \in SessionInputs : DeleteSession(sid)
    \/ \E uid \in UserInputs : DeleteUserSessions(uid)
    \/ CleanupExpiredSessions("job")
    \/ CleanupSessionsDelete("job")
    \/ \E token \in TokenInputs : PostRevoke(token)
    \/ CleanupExpiredTokens("job")
    \/ CleanupTokensDelete("job")

SpecStore == Init /\ [][NextStore]_vars

\* the session sweep and the listing of a user's sessions, with logins handled
\* one at a time
NextListing ==
    \/ \E d \in StoreTickSteps : Tick(d)
    \/ BeginLogin("discord")
    \/ \E key \in StateInputs : CallbackStart("r1", "discord", key)
    \/ Exchange("r1")
    \/ \E sub \in Subs : UserInfo("r1", sub)
    \/ FindUser("r1")
    \/ CreateUser("r1")
    \/ GenerateTokens("r1")
    \/ CreateSession("r1")
    \/ StepFails("r1")
    \/ CleanupExpiredSessions("job")
    \/ CleanupSessionsDelete("job")
    \/ \E uid \in UserInputs : GetUserSessions("r2", uid)
    \/ GetUserSessionsFinish("r2")

SpecListing == Init /\ [][NextListing]_vars

\* the refresh-token store when the generator is not trusted to return a new
\* value every time, with logins handled one at a time
NextCollide ==
    \/ \E d \in TickSteps : Tick(d)
    \/ BeginLogin("discord")
    \/ \E key \in StateInputs : CallbackStart("r1", "discord", key)
    \/ Exchange("r1")
    \/ \E sub \in Subs : UserInfo("r1", sub)
    \/ FindUser("r1")
    \/ CreateUser("r1")
    \/ \E v \in 1..MaxCallbacks : GenerateTokensWith("r1", v)
    \/ CreateSession("r1")
    \/ StepFails("r1")
    \/ \E token \in TokenInputs : PostRevoke(token)

SpecCollide == Init /\ [][NextCollide]_vars

\* updateSession and the clock, with logins handled one at a time
NextUpdate ==
    \/ \E d \in StoreTickSteps : Tick(d)
    \/ BeginLogin("discord")
    \/ \E key \in StateInputs : CallbackStart("r1", "discord", key)
    \/ Exchange("r1")
    \/ UserInfo("r1", "s1")
    \/ FindUser("r1")
    \/ CreateUser("r1")
    \/ GenerateTokens("r1")
    \/ CreateSession("r1")
    \/ StepFails("r1")
    \/ \E sid \in SessionInputs : \E patch \in Patches :
           UpdateSessionStart("r2", sid, patch)
    \/ UpdateSessionFinish("r2")

SpecUpdate == Init /\ [][NextUpdate]_vars

\* deletions running between the steps of the other session operations, with
\* logins handled one at a time
NextDelete ==
    \/ Tick(SESSION_DURATION)
    \/ BeginLogin("discord")
    \/ \E key \in StateInputs : CallbackStart("r1", "discord", key)
    \/ Exchange("r1")
    \/ \E sub \in Subs : UserInfo("r1", sub)
    \/ FindUser("r1")
    \/ CreateUser("r1")
    \/ GenerateTokens("r1")
    \/ CreateSession("r1")
    \/ StepFails("r1")
    \/ \E sid \in SessionInputs : GetSession("r2", sid)
    \/ \E sid \in SessionInputs : SessionMiddleware("r2", sid)
    \/ SessionTouch("r2")
    \/ SessionExtend("r2")
    \/ \E sid \in SessionInputs : SessionMiddlewareSelectFails("r2", sid)
    \/ SessionMiddlewareFails("r2")
    \/ \E sid \in SessionInputs : UpdateSessionStart("r2", sid, [theme |-> "dark"])
    \/ UpdateSessionFinish("r2")
    \/ \E sid \in SessionInputs : DeleteSession(sid)
    \/ \E uid \in UserInputs : DeleteUserSessions(uid)

SpecDelete == Init /\ [][NextDelete]_vars

\* extension, directly and through the middleware, while the clock runs, with
\* logins handled one at a time
NextExpiry ==
    \/ \E d \in SessionTickSteps : Tick(d)
    \/ BeginLogin("discord")
    \/ \E key \in StateInputs : CallbackStart("r1", "discord", key)
    \/ Exchange("r1")
    \/ UserInfo("r1", "s1")
    \/ FindUser("r1")
    \/ CreateUser("r1")
    \/ GenerateTokens("r1")
    \/ CreateSession("r1")
    \/ StepFails("r1")
    \/ \E sid \in SessionInputs : SessionMiddleware("r2", sid)
    \/ SessionTouch("r2")
    \/ SessionExtend("r2")
    \/ \E sid \in SessionInputs : SessionMiddlewareSelectFails("r2", sid)
    \/ SessionMiddlewareFails("r2")
    \/ \E sid \in SessionInputs : ExtendSession("r2", sid)

SpecExpiry == Init /\ [][NextExpiry]_vars

\* two updateSession calls in flight at once, after a login
NextMerge ==
    \/ BeginLogin("discord")
    \/ \E key \in StateInputs : CallbackStart("r1", "discord", key)
    \/ Exchange("r1")
    \/ \E sub \in Subs : UserInfo("r1", sub)
    \/ FindUser("r1")
    \/ CreateUser("r1")
    \/ GenerateTokens("r1")
    \/ CreateSession("r1")
    \/ StepFails("r1")
    \/ \E p \in Procs : \E sid \in SessionInputs :
           \E patch \in DisjointPatches : UpdateSessionStart(p, sid, patch)
    \/ \E p \in Procs : UpdateSessionFinish(p)

SpecMerge == Init /\ [][NextMerge]_vars

\* the users table as the server can find it when it starts: the rows
\* outlive the process, and the schema lets a row carry any provider with any
\* provider_id
StoredUsers ==
    UNION {{{[id |-> i, provider |-> f[i][1], providerId |-> f[i][2],
              email |-> EmailOf(f[i][2]), name |-> NameOf(f[i][2])] :
                 i \in 1..n} :
               f \in [1..n -> ClientKeys \X Subs]} : n \in 0..MaxCallbacks}

\* the server started on a database that already holds user rows
InitLookup ==
    /\ zone \in Zones
    /\ running = TRUE
    /\ now = 0
    /\ ticks = 0
    /\ states = {}
    /\ issued = 0
    /\ users \in StoredUsers
    /\ refreshTokens = {}
    /\ tokenCtr = 0
    /\ sessions = {}
    /\ sessionCtr = 0
    /\ procs = [p \in Procs \cup Jobs |-> Idle]
    /\ calls = 0
    /\ resp = NoResp
    /\ finished = {}

\* logins, handled one at a time, on a database that already holds user rows
NextLookup ==
    \/ BeginLogin("discord")
    \/ \E key \in StateInputs : CallbackStart("r1", "discord", key)
    \/ Exchange("r1")
    \/ \E sub \in Subs : UserInfo("r1", sub)
    \/ FindUser("r1")
    \/ CreateUser("r1")
    \/ GenerateTokens("r1")
    \/ CreateSession("r1")
    \/ StepFails("r1")

SpecLookup == InitLookup /\ [][NextLookup]_vars

\* every route of the server startServer starts, served for ever; startServer
\* registers no timer, so nothing else ever runs
NextRunning ==
    \/ Tick(REFRESH_TOKEN_EXPIRES_IN)
    \/ BeginLogin("discord")
    \/ \E key \in StateInputs : CallbackStart("r1", "discord", key)
    \/ Exchange("r1")
    \/ UserInfo("r1", "s1")
    \/ FindUser("r1")
    \/ CreateUser("r1")
    \/ GenerateTokens("r1")
    \/ CreateSession("r1")
    \/ StepFails("r1")
    \/ \E route \in SessionRoutes : \E sid \in SessionInputs :
           SessionRoute(route, sid)
    \/ \E token \in TokenInputs : RefreshStart("r2", token)
    \/ RefreshLookup("r2")
    \/ RefreshFinish("r2")
    \/ RefreshFails("r2")
    \/ \E token \in TokenInputs : PostRevoke(token)
    \/ \E token \in TokenInputs : RevokeFails(token)

SpecRunning == Init /\ [][NextRunning]_vars /\ WF_vars(NextRunning)

\* ---------------------------------------------------------------- claims
\* the durable tables
Durable == <<users, refreshTokens, sessions>>

\* a stored record makes the token value usable at time t, as the data model
\* defines it: not revoked and not yet expired
Usable(token, t) ==
    \E r \in refreshTokens :
        r.token = token /\ r.isRevoked = FALSE /\ r.expiresAt > t

\* C1: a refresh request with a token value succeeds (200) exactly when a
\* stored record with that value is not revoked and has expiresAt > now, and
\* otherwise fails with 401 "Invalid refresh token".
C1_RefreshUsableIff ==
    (resp.op = "refresh" /\ resp.token # NoToken) =>
        /\ resp.status = 200 <=> Usable(resp.token, now)
        /\ resp.status # 200 =>
               resp.status = 401 /\ resp.error = "Invalid refresh token"

\* every record holding the value t is revoked (or no record holds it)
NotLive(rows, t) ==
    \A r \in rows : r.token = t => r.isRevoked = TRUE

\* C2: once revokeRefreshToken(t) has completed, no record with value t is
\* unrevoked, no later step makes one unrevoked again, and every refresh
\* with t whose lookup runs later answers 401 "Invalid refresh token", at
\* any time.
C2_RevokedStaysRevoked ==
    [][/\ (resp'.op = "revoke" /\ resp'.status = 200) =>
              NotLive(refreshTokens', resp'.token)
       /\ \A t \in 0..tokenCtr :
              NotLive(refreshTokens, t) => NotLive(refreshTokens', t)
       /\ \A p \in Procs :
              (procs[p].pc = "refreshToken" /\ procs'[p] # procs[p]
                   /\ NotLive(refreshTokens, procs[p].token)) =>
                  /\ procs'[p].pc = "idle"
                  /\ resp'.op = "refresh"
                  /\ resp'.status = 401
                  /\ resp'.error = "Invalid refresh token"]_vars

\* a refresh of a revoked record was rejected although the expiry test of
\* the select let the record through
C2_Witness ==
    /\ resp.op = "refresh"
    /\ resp.status = 401
    /\ \E r \in refreshTokens :
           r.token = resp.token /\ r.isRevoked = TRUE /\ r.expiresAt < now

\* the callback request is answered 400 before the try block and writes
\* nothing; with a configured path provider the error is "Invalid state"
RejectedAtStateCheck(provider, key) ==
    /\ resp'.op = "callback"
    /\ resp'.status = 400
    /\ resp'.state = key
    /\ HasConfig(provider) => resp'.error = "Invalid state"
    /\ UNCHANGED <<zone, running, procs, states, users, refreshTokens, sessions>>

\* the callback request is answered 400 before the try block and writes
\* nothing: "Invalid state" when clients has a property for the path provider,
\* "Invalid provider" when it has none
RejectedBeforeTry(provider, key) ==
    /\ resp'.op = "callback"
    /\ resp'.status = 400
    /\ resp'.state = key
    /\ resp'.error = IF HasConfig(provider) THEN "Invalid state"
                                            ELSE "Invalid provider"
    /\ UNCHANGED <<zone, running, procs, states, users, refreshTokens, sessions>>

\* C3, as stated: once a callback carrying state S has answered 200, every
\* callback that arrives later with S, whatever provider its path names, is
\* answered 400 "Invalid state" and issues no tokens and no session.
C3_LaterCallbackInvalidState ==
    [][\A p \in Procs : \A provider \in PathProviders : \A key \in StateInputs :
           (<<key, 200>> \in finished /\ CallbackStart(p, provider, key)) =>
               /\ resp'.status = 400
               /\ resp'.error = "Invalid state"
               /\ UNCHANGED <<procs, states, users, refreshTokens,
                              sessions>>]_vars

\* C3, amended: once a callback carrying state S has answered 200, every
\* callback that arrives later with S is answered 400 and issues no tokens
\* and no session; the error is "Invalid state" when clients has a property
\* for the path provider and "Invalid provider" when it has none.
C3_SingleUseState ==
    [][\A p \in Procs : \A provider \in PathProviders : \A key \in StateInputs :
           (<<key, 200>> \in finished /\ CallbackStart(p, provider, key)) =>
               RejectedBeforeTry(provider, key)]_vars

\* a callback was answered Invalid state for a state an earlier callback
\* completed a login with
C3_Witness ==
    /\ resp.op = "callback"
    /\ resp.status = 400
    /\ resp.error = "Invalid state"
    /\ <<resp.state, 200>> \in finished

\* C4: no two callbacks are past the state check with the same state at the
\* same time (the check and the removal are one atomic step).
C4_FirstConsumerWins ==
    \A p, q \in Procs :
        (p # q /\ procs[p].pc # "idle" /\ procs[q].pc # "idle") =>
            procs[p].state # procs[q].state

\* the User rows of an external identity
RowsOf(provider, sub) ==
    {u \in users : u.provider = provider /\ u.providerId = sub}

\* C5: after a successful login for (provider, sub) there is exactly one User
\* row with that pair, and it is the user the login resolved to.
C5_IdempotentProvisioning ==
    (resp.op = "callback" /\ resp.status = 200) =>
        /\ Cardinality(RowsOf(resp.provider, resp.sub)) = 1
        /\ \A u \in RowsOf(resp.provider, resp.sub) : u.id = resp.userId

\* C6: in every reachable state at most one User row exists per
\* (provider, providerId) pair.
C6_UniqueIdentity ==
    \A u, v \in users :
        (u.provider = v.provider /\ u.providerId = v.providerId) => u = v

\* C7: the user a callback issues tokens and a session for is a User row of
\* the callback's provider and the fetched sub.
C7_LookupByProviderAndSub ==
    \A p \in Procs :
        procs[p].pc \in {"tokens", "session"} =>
            \E u \in RowsOf(procs[p].provider, procs[p].sub) :
                u.id = procs[p].userId

\* C8: a callback that passed the state check and then fails in one of its
\* steps (while the server process stays up) answers 500 "Authentication
\* failed" with its state removed from the registry, and every callback that
\* arrives later with that state is answered 400 Invalid state.
C8_CleanupOnFailure ==
    [][\A p \in Procs :
           /\ (procs[p].pc # "idle" /\ procs'[p].pc = "idle"
                   /\ resp'.status # 200 /\ running') =>
                  /\ resp'.op = "callback"
                  /\ resp'.status = 500
                  /\ resp'.error = "Authentication failed"
                  /\ resp'.state = procs[p].state
                  /\ StatesGet(states', procs[p].state) = {}
                  /\ <<procs[p].state, 500>> \in finished'
           /\ \A provider \in PathProviders : \A key \in StateInputs :
                  (<<key, 500>> \in finished
                       /\ CallbackStart(p, provider, key)) =>
                      RejectedAtStateCheck(provider, key)]_vars

\* a retried callback was answered Invalid state for a state whose first
\* callback had failed with 500
C8_Witness ==
    /\ resp.op = "callback"
    /\ resp.status = 400
    /\ resp.error = "Invalid state"
    /\ <<resp.state, 500>> \in finished

\* C9: after a callback is answered Invalid state, the state it carried is
\* not in the registry.
C9_MismatchRemovesState ==
    (resp.op = "callback" /\ resp.error = "Invalid state") =>
        StatesGet(states, resp.state) = {}

\* C10: beginLogin with a provider outside {google, discord} answers 400
\* "Invalid provider" and leaves the registry unchanged; with a configured
\* provider it adds exactly one entry, under a fresh state and recording the
\* provider; in both cases it writes nothing durable.
C10_BeginLogin ==
    [][\A provider \in PathProviders :
           BeginLogin(provider) =>
               /\ UNCHANGED Durable
               /\ IF provider \in {"google", "discord"}
                    THEN \E e \in states' :
                             /\ e.provider = provider
                             /\ StatesGet(states, e.state) = {}
                             /\ states' = states \cup {e}
                    ELSE /\ resp'.status = 400
                         /\ resp'.error = "Invalid provider"
                         /\ UNCHANGED states]_vars

\* C11: a callback whose code exchange or user-info fetch fails answers 500
\* "Authentication failed", and no step of that call, from the state check to
\* the failure (or to the end of the server process), writes a User,
\* RefreshToken or Session row.
C11_NoPartialStateOnUpstreamFailure ==
    [][\A p \in Procs :
           /\ (procs[p].pc = "idle" /\ procs'[p].pc = "exchange") =>
                  UNCHANGED Durable
           /\ (procs[p].pc \in {"exchange", "userinfo"}
                   /\ procs'[p] # procs[p]) =>
                  /\ UNCHANGED Durable
                  /\ (procs'[p].pc = "idle" /\ running') =>
                         /\ resp'.op = "callback"
                         /\ resp'.status = 500
                         /\ resp'.error = "Authentication failed"
                         /\ resp'.state = procs[p].state]_vars

\* a callback failed before any user info was fetched, while another login
\* had already written its rows
C11_Witness ==
    /\ resp.op = "callback"
    /\ resp.status = 500
    /\ resp.sub = ""
    /\ users # {}

\* C12: getSession goes on to return the row it selected only when the row's
\* expiresAt is strictly later than the time of the check; a row whose
\* expiresAt equals that time is answered not-found.
C12_GetSessionStrict ==
    \A p \in Procs :
        (procs[p].pc = "touch" /\ procs[p].caller = "getSession") =>
            procs[p].seen.expiresAt > procs[p].at

\* C13: a session route of the running server answers 200 exactly when the
\* x-session-id header names an existing session with expiresAt > now, and
\* 401 otherwise.
C13_SessionRoutesAuthenticate ==
    resp.op \in SessionRoutes =>
        /\ resp.status = 200 <=>
               \E s \in sessions : s.id = resp.sessionId /\ s.expiresAt > now
        /\ resp.status # 200 => resp.status = 401

\* C14: the token step of a callback adds exactly one refresh-token record,
\* owned by the resolved user, not revoked, expiring 2592000 s after
\* generateTokens was called; the step that answers 200 adds exactly one
\* session for that user, expiring 86400 s after createSession was called,
\* with data {provider, email, name, lastLogin}, and the response carries
\* that token value, expiresIn = 2592000 and that session's id.
C14_LoginIssuesTokenAndSession ==
    [][\A p \in Procs :
           /\ (procs[p].pc = "tokens" /\ procs'[p].pc = "session") =>
                  /\ \E r \in refreshTokens' \ refreshTokens :
                         /\ refreshTokens' = refreshTokens \cup {r}
                         /\ \A q \in refreshTokens : q.token # r.token
                         /\ r.userId = procs[p].userId
                         /\ r.isRevoked = FALSE
                         /\ r.expiresAt = procs[p].at + 2592000
                         /\ procs'[p].token = r.token
                  /\ UNCHANGED <<users, sessions>>
           /\ (procs[p].pc = "session" /\ procs'[p].pc = "idle"
                   /\ resp'.status = 200) =>
                  /\ \E s \in sessions' \ sessions :
                         /\ sessions' = sessions \cup {s}
                         /\ \A q \in sessions : q.id # s.id
                         /\ s.userId = procs[p].userId
                         /\ s.expiresAt = procs[p].at + 86400
                         /\ s.data = [provider |-> procs[p].provider,
                                      email |-> EmailOf(procs[p].sub),
                                      name |-> NameOf(procs[p].sub),
                                      lastLogin |-> procs[p].at]
                         /\ resp'.sessionId = s.id
                  /\ resp'.op = "callback"
                  /\ resp'.token = procs[p].token
                  /\ resp'.expiresIn = 2592000
                  /\ resp'.userId = procs[p].userId
                  /\ UNCHANGED <<users, refreshTokens>>]_vars

\* C15: cleanupExpiredTokens removes exactly the refresh-token records that
\* are revoked or have expiresAt <= the time of the call, a record expiring
\* at that very moment included, and leaves the other records, the users and
\* the sessions as they were.
C15_CleanupRemovesExactly ==
    [][\A p \in Jobs :
           CleanupTokensDelete(p) =>
               /\ refreshTokens' =
                      {r \in refreshTokens :
                           ~(r.expiresAt <= procs[p].at \/ r.isRevoked = TRUE)}
               /\ UNCHANGED <<users, sessions>>]_vars

\* C16: with the sweep interleaved between the steps of the other requests,
\* the sweep deletes only records that are revoked or expired at that moment,
\* a record stored by generateTokens survives a sweep at the same clock
\* reading, and a refresh that completes either answers 200 for a token that
\* was usable when it was looked up or answers 401 "Invalid refresh token".
C16_SweepSafeUnderInterleaving ==
    [][/\ \A p \in Jobs :
              CleanupTokensDelete(p) =>
                  \A r \in refreshTokens \ refreshTokens' :
                      r.isRevoked = TRUE \/ r.expiresAt <= now
       /\ \A r \in refreshTokens :
              (r.isRevoked = FALSE /\ r.expiresAt > now) =>
                  r \in refreshTokens'
                      \/ [r EXCEPT !.isRevoked = TRUE] \in refreshTokens'
       /\ (resp'.op = "refresh" /\ resp'.token # NoToken) =>
              IF resp'.status = 200
                THEN \E p \in Procs :
                         /\ procs[p].pc = "refreshUser"
                         /\ procs'[p].pc = "idle"
                         /\ procs[p].row.isRevoked = FALSE
                         /\ procs[p].row.expiresAt > procs[p].at
                ELSE /\ resp'.status = 401
                     /\ resp'.error = "Invalid refresh token"]_vars

\* C17: a revoke request carrying a token value answers 200 and sets revoked
\* on the records with that value only; when that value is already revoked
\* or matches no record, the refresh-token table is left exactly as it was.
C17_RevokeIdempotent ==
    [][\A token \in 0..MaxCallbacks :
           PostRevoke(token) =>
               /\ resp'.status = 200
               /\ \A r \in refreshTokens :
                      IF r.token = token
                        THEN [r EXCEPT !.isRevoked = TRUE] \in refreshTokens'
                        ELSE r \in refreshTokens'
               /\ Cardinality(refreshTokens') = Cardinality(refreshTokens)
               /\ NotLive(refreshTokens, token) =>
                      refreshTokens' = refreshTokens
               /\ UNCHANGED <<users, sessions>>]_vars

\* a value that matches no record was revoked with 200 while the table held
\* a revoked and an unrevoked record
C17_Witness ==
    /\ resp.op = "revoke"
    /\ resp.status = 200
    /\ \A r \in refreshTokens : r.token # resp.token
    /\ \E r \in refreshTokens : r.isRevoked = TRUE
    /\ \E r \in refreshTokens : r.isRevoked = FALSE

\* C18: every step of a refresh request leaves the refresh-token table
\* unchanged whether the request succeeds or fails, and the lookup of a
\* refresh, a repeated one included, passes exactly while the token is
\* neither expired nor revoked at the time of the call.
C18_RefreshDoesNotRotate ==
    [][\A p \in Procs :
           /\ ((procs[p].pc = "idle" /\ procs'[p].pc = "refreshToken")
                    \/ (procs[p].pc \in {"refreshToken", "refreshUser"}
                            /\ procs'[p] # procs[p])) =>
                  UNCHANGED refreshTokens
           /\ (procs[p].pc = "refreshToken" /\ procs'[p] # procs[p]) =>
                  (procs'[p].pc = "refreshUser" <=>
                       Usable(procs[p].token, procs[p].at))]_vars

\* C19: when the session middleware has resolved a session and the session
\* has less than 3600 s left at that moment, the middleware extends it: the
\* row's expiresAt becomes that moment + 86400 s and its lastAccessedAt that
\* moment; when 3600 s or more are left, the middleware finishes with the
\* row's expiresAt unchanged. Stated for requests whose statements the storage
\* accepts.
C19_SelfRenewalNearExpiry ==
    [][\A p \in Procs :
           /\ (procs[p].pc = "touch" /\ procs[p].caller = "middleware"
                   /\ procs'[p] # procs[p] /\ ~SessionMiddlewareFails(p)) =>
                  \A s \in SessionsById(sessions, procs[p].sessionId) :
                      IF s.expiresAt - now < 3600
                        THEN /\ procs'[p].pc = "extend"
                             /\ procs'[p].at = now
                        ELSE /\ procs'[p].pc = "idle"
                             /\ resp'.op = "middleware"
                             /\ \E n \in SessionsById(sessions',
                                                      procs[p].sessionId) :
                                    n.expiresAt = s.expiresAt
           /\ (procs[p].pc = "extend" /\ procs'[p] # procs[p]
                   /\ ~SessionMiddlewareFails(p)) =>
                  /\ procs'[p].pc = "idle"
                  /\ resp'.op = "middleware"
                  /\ SessionsById(sessions', procs[p].sessionId) # {}
                  /\ \A n \in SessionsById(sessions', procs[p].sessionId) :
                         /\ n.expiresAt = procs[p].at + 86400
                         /\ n.lastAccessedAt = procs[p].at]_vars

\* C20: a session is usable (expiresAt > now) at every time earlier than
\* 86400 s after its most recent access, and unusable once 86400 s have
\* passed since that access.
C20_ExpiresAfterInactivity ==
    \A s \in sessions :
        s.expiresAt > now <=> now < s.lastAccessedAt + 86400

\* C21: in the running system every refresh-token record that is expired or
\* revoked is eventually deleted, and every expired session is eventually
\* deleted.
C21_CleanupEventuallyRuns ==
    /\ \A t \in 1..MaxCallbacks :
           (\E r \in refreshTokens :
                r.token = t /\ (r.isRevoked = TRUE \/ r.expiresAt <= now))
               ~> (\A r \in refreshTokens : r.token # t)
    /\ \A sid \in 1..MaxCallbacks :
           (\E s \in sessions : s.id = sid /\ s.expiresAt <= now)
               ~> (\A s \in sessions : s.id # sid)

\* C22: a response reporting a bad provider, a bad state or a bad refresh
\* token is a 4xx, and an upstream or storage failure is answered 5xx: a
\* callback whose awaited step rejects, and a refresh whose storage query
\* rejects, which is not reported as 401 "Invalid refresh token".
C22_ErrorClasses ==
    [][/\ resp'.error \in {"Invalid provider", "Invalid state",
                           "Invalid refresh token",
                           "Refresh token is required"} =>
              resp'.status \in 400..499
       /\ \A p \in Procs :
              /\ StepFails(p) => resp'.status \in 500..599
              /\ RefreshFails(p) =>
                     /\ resp'.status \in 500..599
                     /\ resp'.error # "Invalid refresh token"
       /\ \A token \in TokenInputs :
              RevokeFails(token) => resp'.status \in 500..599]_vars

\* C23: deleteSession, deleteUserSessions and cleanupExpiredSessions leave
\* every refresh-token record as it was, and revokeRefreshToken and
\* cleanupExpiredTokens leave every session as it was.
C23_IndependentDeletion ==
    [][/\ \A sid \in SessionInputs :
              DeleteSession(sid) => UNCHANGED refreshTokens
       /\ \A uid \in UserInputs :
              DeleteUserSessions(uid) => UNCHANGED refreshTokens
       /\ \A p \in Jobs :
              /\ CleanupExpiredSessions(p) => UNCHANGED refreshTokens
              /\ CleanupSessionsDelete(p) => UNCHANGED refreshTokens
              /\ CleanupExpiredTokens(p) => UNCHANGED sessions
              /\ CleanupTokensDelete(p) => UNCHANGED sessions
       /\ \A token \in TokenInputs :
              PostRevoke(token) => UNCHANGED sessions]_vars

\* all sessions of a user were deleted while the user still holds an
\* unrevoked refresh token
C23_Witness ==
    /\ resp.op = "deleteUserSessions"
    /\ sessionCtr > 0
    /\ \A s \in sessions : s.userId # resp.userId
    /\ \E r \in refreshTokens :
           r.userId = resp.userId /\ r.isRevoked = FALSE

\* C24: no two refresh-token records hold the same token value, whatever
\* values the generator hands to the store.
C24_UniqueTokenValue ==
    \A r, q \in refreshTokens : r.token = q.token => r = q

\* C25: a getSession call that returns a session has set that session's
\* lastAccessedAt to the time of the call and changed nothing else in the
\* store; a getSession call that returns not-found leaves the store, and
\* the other tables, as they were.
C25_GetSessionFrame ==
    [][\A p \in Procs :
           /\ \A sid \in SessionInputs :
                  GetSession(p, sid) => UNCHANGED Durable
           /\ (procs[p].pc = "touch" /\ procs[p].caller = "getSession"
                   /\ procs'[p] # procs[p]) =>
                  /\ resp'.op = "getSession"
                  /\ resp'.session = procs[p].seen
                  /\ sessions' =
                         {IF s.id = procs[p].sessionId
                            THEN [s EXCEPT !.lastAccessedAt = procs[p].at]
                            ELSE s : s \in sessions}
                  /\ UNCHANGED <<users, refreshTokens>>]_vars

\* getSession returned a session created earlier: the row's lastAccessedAt
\* has moved, its expiresAt and data have not
C25_Witness ==
    /\ resp.op = "getSession"
    /\ resp.session # NoSession
    /\ \E s \in sessions :
           /\ s.id = resp.sessionId
           /\ s.lastAccessedAt > resp.session.lastAccessedAt
           /\ s.expiresAt = resp.session.expiresAt
           /\ s.data = resp.session.data

\* C26: updateSession on a session with expiresAt > now replaces the row's
\* data by the old data with the keys of the partial data overwritten or
\* added, and leaves expiresAt and every other row as they were; on a missing
\* session or one with expiresAt <= now it returns not-found and writes
\* nothing.
C26_UpdateSessionMerge ==
    [][\A p \in Procs :
           /\ \A sid \in SessionInputs : \A patch \in Patches :
                  UpdateSessionStart(p, sid, patch) =>
                      /\ UNCHANGED Durable
                      /\ procs'[p].pc = "update" <=>
                             \E s \in sessions :
                                 s.id = sid /\ s.expiresAt > now
                      /\ procs'[p].pc # "update" => resp'.error = "null"
           /\ (procs[p].pc = "update" /\ procs'[p] # procs[p]) =>
                  /\ \A s \in sessions :
                         IF s.id # procs[p].sessionId
                           THEN s \in sessions'
                           ELSE \E n \in sessions' :
                                    /\ n.id = s.id
                                    /\ n.expiresAt = s.expiresAt
                                    /\ DOMAIN n.data =
                                           DOMAIN s.data
                                               \cup DOMAIN procs[p].patch
                                    /\ \A k \in DOMAIN procs[p].patch :
                                           n.data[k] = procs[p].patch[k]
                                    /\ \A k \in DOMAIN s.data
                                                 \ DOMAIN procs[p].patch :
                                           n.data[k] = s.data[k]
                  /\ Cardinality(sessions') = Cardinality(sessions)
                  /\ UNCHANGED <<users, refreshTokens>>]_vars

\* C27: deleteSession removes exactly the session with the given id and
\* deleteUserSessions exactly the sessions of the given user, both without
\* error when nothing matches; a session id that has been handed out and is
\* no longer in the store never comes back, whatever operation completes
\* later, and every getSession called on it returns not-found.
C27_DeletedStaysDeleted ==
    [][/\ \A sid \in SessionInputs :
              DeleteSession(sid) =>
                  /\ sessions' = {s \in sessions : s.id # sid}
                  /\ resp'.error = ""
                  /\ UNCHANGED <<users, refreshTokens>>
       /\ \A uid \in UserInputs :
              DeleteUserSessions(uid) =>
                  /\ sessions' = {s \in sessions : s.userId # uid}
                  /\ resp'.error = ""
                  /\ UNCHANGED <<users, refreshTokens>>
       /\ \A sid \in 1..sessionCtr :
              (\A s \in sessions : s.id # sid) =>
                  /\ \A s \in sessions' : s.id # sid
                  /\ \A p \in Procs :
                         GetSession(p, sid) =>
                             /\ resp'.error = "null"
                             /\ procs'[p].pc = "idle"]_vars

\* an operation that had selected a session completed after the session was
\* deleted, and the store still holds no row with that id
C27_Witness ==
    /\ resp.op \in {"getSession", "middleware"}
    /\ resp.session # NoSession
    /\ resp.sessionId \in 1..sessionCtr
    /\ \A s \in sessions : s.id # resp.sessionId

\* C28: cleanupExpiredSessions leaves exactly the sessions with expiresAt
\* later than the time of the call, deleting a session whose expiresAt equals
\* that time, and getUserSessions(u) returns exactly the sessions of u with
\* expiresAt later than the time of the call.
C28_SessionSweepAndListing ==
    [][/\ \A p \in Jobs :
              CleanupSessionsDelete(p) =>
                  sessions' = {s \in sessions : s.expiresAt > procs[p].at}
       /\ \A p \in Procs :
              GetUserSessionsFinish(p) =>
                  resp'.list =
                      {s \in sessions : /\ s.userId = procs[p].userId
                                        /\ s.expiresAt > procs[p].at}]_vars

\* the order in which a callback request moves through its steps
LoginOrder ==
    {<<"idle", "exchange">>, <<"exchange", "userinfo">>,
     <<"userinfo", "find">>, <<"find", "insert">>, <<"find", "tokens">>,
     <<"insert", "tokens">>, <<"tokens", "session">>, <<"session", "idle">>,
     <<"exchange", "idle">>, <<"userinfo", "idle">>, <<"find", "idle">>,
     <<"insert", "idle">>, <<"tokens", "idle">>}

\* C29: a callback moves only forward through state check, code exchange,
\* user-info fetch, user lookup or creation, token issue and session issue; it
\* starts only with a registered state, users are written only at the create
\* step, tokens only for a resolved user, sessions only at the last step; when
\* it ends its state is removed and recorded as completed or failed; and once
\* an attempt is consumed (its state completed a login) no further token or
\* session is issued for it.
C29_LoginStateMachine ==
    [][\A p \in Procs :
           /\ procs'[p].pc # procs[p].pc =>
                  <<procs[p].pc, procs'[p].pc>> \in LoginOrder
           /\ (procs[p].pc = "idle" /\ procs'[p].pc = "exchange") =>
                  StateCheckPasses(states, procs'[p].state, procs'[p].provider)
           /\ (procs[p].pc # "tokens" /\ procs'[p].pc = "tokens") =>
                  \E u \in users' : u.id = procs'[p].userId
           /\ (procs[p].pc # "idle" /\ procs'[p].pc = "idle") =>
                  /\ StatesGet(states', procs[p].state) = {}
                  /\ \E st \in {200, 500} :
                         <<procs[p].state, st>> \in finished'
           /\ procs'[p] # procs[p] =>
                  /\ users' # users => procs[p].pc = "insert"
                  /\ refreshTokens' # refreshTokens => procs[p].pc = "tokens"
                  /\ sessions' # sessions => procs[p].pc = "session"
                  /\ <<procs[p].state, 200>> \in finished =>
                         UNCHANGED <<refreshTokens, sessions>>]_vars

\* C30: no step deletes or changes a User row, and after every step every
\* refresh-token record and every session has a userId that is the id of a
\* User row.
C30_ReferentialIntegrity ==
    [][/\ users \subseteq users'
       /\ \A r \in refreshTokens' : \E u \in users' : u.id = r.userId
       /\ \A s \in sessions' : \E u \in users' : u.id = s.userId]_vars

\* two users exist and a login has just stored a token and a session that
\* reference one of them
C30_Witness ==
    /\ resp.op = "callback"
    /\ resp.status = 200
    /\ Cardinality(users) = 2
    /\ \E u \in users :
           /\ u.id = resp.userId
           /\ \E r \in refreshTokens : r.token = resp.token /\ r.userId = u.id
           /\ \E s \in sessions : s.id = resp.sessionId /\ s.userId = u.id

\* C31: when a callback answers 500 "Authentication failed", the store holds
\* no refresh-token record issued by that callback.
C31_NoOrphanRefreshToken ==
    [][\A p \in Procs :
           (procs[p].pc # "idle" /\ procs'[p].pc = "idle"
                /\ resp'.op = "callback" /\ resp'.status = 500) =>
               \A r \in refreshTokens' : r.token # procs[p].token]_vars

\* C32: a session whose expiresAt has passed is never usable again: after
\* every step its expiresAt is still not later than the clock, whether the
\* step is a direct extendSession or the extension the middleware issues
\* after its getSession check.
C32_ExpiryIsFinal ==
    [][\A s \in sessions :
           s.expiresAt < now =>
               \A n \in sessions' : n.id = s.id => n.expiresAt <= now']_vars

\* C33: concurrent updateSession calls lose no update: when the last of the
\* calls in flight on a session completes, every key the data blob held
\* before that write, the keys written by the other call included, is still
\* in the blob, and every key outside the call's own partial data keeps its
\* value.
C33_NoLostUpdate ==
    [][\A p \in Procs :
           (/\ procs[p].pc = "update"
            /\ procs'[p].pc = "idle"
            /\ \A q \in Procs \ {p} : procs[q].pc = "idle") =>
               \A s \in sessions : \A n \in sessions' :
                   (s.id = procs[p].sessionId /\ n.id = s.id) =>
                       /\ DOMAIN procs[p].patch \subseteq DOMAIN n.data
                       /\ \A k \in DOMAIN s.data :
                              /\ k \in DOMAIN n.data
                              /\ k \notin DOMAIN procs[p].patch =>
                                     n.data[k] = s.data[k]]_vars

====
